---- MODULE Spec2Model ----
(***************************************************************************)
(* A model of release.py, the MathFonts release script: one run of main()  *)
(* (argument parsing, MathFontsReleaser.__init__, release() and the        *)
(* process exit), together with the environment it acts on: the external   *)
(* commands it spawns, the files under tmp/, and the GitHub release API.   *)
(*                                                                         *)
(* Python strings are sequences of one-character strings; a Python value   *)
(* is a record [type, val] so that str, bytes and None stay distinct.      *)
(***************************************************************************)
EXTENDS Integers, Sequences, FiniteSets, TLC

VARIABLES
    args_version,     \* argparse --version: None or a str
    args_dry_run,     \* argparse --dry-run
    args_token,       \* argparse --token: None or a str
    env_token,        \* os.getenv('GITHUB_TOKEN'): None or a str
    dry_run,          \* self.dry_run
    github_token,     \* self.github_token
    pc,               \* position of the run
    exc,              \* exception in flight: "none", "Exception", "SystemExit"
    current_version,  \* release(): local current_version
    version,          \* release(): local version
    archives,         \* create_archives(): the dict, as <<key, path>> in insertion order
    archives_bound,   \* release(): 'archives' in locals()
    todo,             \* create_github_release(): archives.items() still to iterate
    ret,              \* what release() returned: "none", "True", "False"
    exit_code,        \* process exit code, -1 while running
    makefile_exists,  \* (base_dir / 'Makefile').exists()
    dist_exists,      \* dist_dir.exists()
    tmp_exists,       \* base_dir / 'tmp' exists
    disk,             \* archive files present under tmp/
    written,          \* archive files this run opened for writing
    deleted,          \* files this run unlinked
    spawned,          \* external commands handed to subprocess.run, in order
    http,             \* HTTP requests sent, in order
    log,              \* self.log calls, in order, as <<level, message>>
    call_in,          \* direct call of increment_version: version argument
    call_type,        \* direct call of increment_version: increment_type
    call_out          \* direct call of increment_version: result

vars == <<args_version, args_dry_run, args_token, env_token, dry_run,
          github_token, pc, exc, current_version, version, archives,
          archives_bound, todo, ret, exit_code, makefile_exists, dist_exists,
          tmp_exists, disk, written, deleted, spawned, http, log,
          call_in, call_type, call_out>>

(***************************************************************************)
(* Bounds                                                                  *)
(***************************************************************************)
\* largest version component drawn for a well-formed tag
MaxComp == 10

(***************************************************************************)
(* Python values and string operations                                     *)
(***************************************************************************)
PyNone == [type |-> "NoneType", val |-> <<>>]

PyStr(s) == [type |-> "str", val |-> s]

PyBytes(s) == [type |-> "bytes", val |-> s]

\* bool(v) for None, str and bytes
Truthy(v) == v.type # "NoneType" /\ v.val # <<>>

Digits == <<"0", "1", "2", "3", "4", "5", "6", "7", "8", "9">>

IsDigit(c) == \E i \in 1..10 : Digits[i] = c

DigitVal(c) == (CHOOSE i \in 1..10 : Digits[i] = c) - 1

Whitespace == {" ", "\n", "\t", "\r"}

RECURSIVE LStripChars(_, _)
\* str.lstrip(chars): drop every leading character that is in chars
LStripChars(s, chars) ==
    IF s # <<>> /\ Head(s) \in chars THEN LStripChars(Tail(s), chars) ELSE s

RECURSIVE RStripChars(_, _)
RStripChars(s, chars) ==
    IF s # <<>> /\ s[Len(s)] \in chars
    THEN RStripChars(SubSeq(s, 1, Len(s) - 1), chars) ELSE s

\* str.strip() / bytes.strip(): the type is kept
Strip(v) == [type |-> v.type, val |-> RStripChars(LStripChars(v.val, Whitespace), Whitespace)]

RECURSIVE SplitFrom(_, _, _)
\* str.split(sep) for a one-character sep; cur is the part being read
SplitFrom(s, sep, cur) ==
    IF s = <<>> THEN <<cur>>
    ELSE IF Head(s) = sep THEN <<cur>> \o SplitFrom(Tail(s), sep, <<>>)
    ELSE SplitFrom(Tail(s), sep, Append(cur, Head(s)))

Split(s, sep) == SplitFrom(s, sep, <<>>)

RECURSIVE DigitsValue(_, _)
DigitsValue(s, acc) ==
    IF s = <<>> THEN acc ELSE DigitsValue(Tail(s), 10 * acc + DigitVal(Head(s)))

\* int(s): surrounding whitespace and one sign are accepted, then one or more
\* decimal digits; anything else raises ValueError
ParseInt(s) ==
    LET t == RStripChars(LStripChars(s, Whitespace), Whitespace)
        signed == t # <<>> /\ Head(t) \in {"+", "-"}
        d == IF signed THEN Tail(t) ELSE t
    IN  IF d # <<>> /\ \A i \in 1..Len(d) : IsDigit(d[i])
        THEN [ok |-> TRUE,
              val |-> IF signed /\ Head(t) = "-" THEN 0 - DigitsValue(d, 0)
                      ELSE DigitsValue(d, 0)]
        ELSE [ok |-> FALSE, val |-> 0]

RECURSIVE NatToStr(_)
NatToStr(n) ==
    IF n < 10 THEN <<Digits[n + 1]>>
    ELSE NatToStr(n \div 10) \o <<Digits[(n % 10) + 1]>>

\* str(n) as an f-string renders an int
IntToStr(n) == IF n < 0 THEN <<"-">> \o NatToStr(0 - n) ELSE NatToStr(n)

\* f'v{major}.{minor}.{patch}'
FormatVersion(major, minor, patch) ==
    <<"v">> \o IntToStr(major) \o <<".">> \o IntToStr(minor) \o <<".">> \o IntToStr(patch)

(***************************************************************************)
(* Version resolution                                                      *)
(***************************************************************************)
IncrementTypes == {"major", "minor", "patch"}

Returned(v) == [raised |-> "none", val |-> v]

Raised(e) == [raised |-> e, val |-> PyNone]

DefaultVersion == PyStr(<<"v", "1", ".", "0", ".", "0">>)

\* a variant of increment_version that keeps the lower components on a bump
increment_version_keep_lower(v, increment_type) ==
    IF v.type # "str" THEN Raised("TypeError")
    ELSE LET parts == Split(LStripChars(v.val, {"v"}), ".")
         IN  IF Len(parts) # 3 THEN Returned(DefaultVersion)
             ELSE LET major == ParseInt(parts[1])
                      minor == ParseInt(parts[2])
                      patch == ParseInt(parts[3])
                  IN  IF ~(major.ok /\ minor.ok /\ patch.ok) THEN Raised("ValueError")
                      ELSE IF increment_type = "major"
                      THEN Returned(PyStr(FormatVersion(major.val + 1, minor.val, patch.val)))
                      ELSE IF increment_type = "minor"
                      THEN Returned(PyStr(FormatVersion(major.val, minor.val + 1, patch.val)))
                      ELSE Returned(PyStr(FormatVersion(major.val, minor.val, patch.val + 1)))

\* increment_version(version, increment_type): the value returned, or the
\* exception raised. str.lstrip('v') on bytes raises TypeError; map(int, parts)
\* raises ValueError on a part that is no integer.
increment_version(v, increment_type) ==
    IF v.type # "str" THEN Raised("TypeError")
    ELSE LET parts == Split(LStripChars(v.val, {"v"}), ".")
         IN  IF Len(parts) # 3 THEN Returned(DefaultVersion)
             ELSE LET major == ParseInt(parts[1])
                      minor == ParseInt(parts[2])
                      patch == ParseInt(parts[3])
                  IN  IF ~(major.ok /\ minor.ok /\ patch.ok) THEN Raised("ValueError")
                      ELSE IF increment_type = "major"
                      THEN Returned(PyStr(FormatVersion(major.val + 1, 0, 0)))
                      ELSE IF increment_type = "minor"
                      THEN Returned(PyStr(FormatVersion(major.val, minor.val + 1, 0)))
                      ELSE Returned(PyStr(FormatVersion(major.val, minor.val, patch.val + 1)))

(***************************************************************************)
(* Logging and external commands                                           *)
(***************************************************************************)
Info(m) == <<"INFO", m>>

Error(m) == <<"ERROR", m>>

GitDescribe == "git describe --tags --abbrev=0"

MakeClean == "make clean"

MakeAll == "make all-parallel"

GitTag == "git tag -a"

GitPush == "git push origin"

\* what the operating system can answer to subprocess.run: the command ran
\* and exited 0, ran and exited nonzero, or could not be started (OSError)
RunOutcomes == {"ok", "nonzero", "oserror"}

\* a variant of run_command that spawns the command in dry-run mode too
run_command_no_dry(cmd, o, out) ==
    IF o = "oserror"
    THEN [status |-> "Exception", stdout |-> PyNone, spawn |-> <<>>,
          log |-> <<Info("Running: " \o cmd)>>]
    ELSE IF o = "nonzero"
    THEN [status |-> "SystemExit", stdout |-> PyNone, spawn |-> <<cmd>>,
          log |-> <<Info("Running: " \o cmd), Error("Command failed: " \o cmd),
                    Error("Error output")>>]
    ELSE [status |-> "ok", stdout |-> PyStr(out), spawn |-> <<cmd>>,
          log |-> <<Info("Running: " \o cmd)>>]

\* a variant of run_command that returns the result of a failed command
run_command_no_exit(cmd, o, out) ==
    IF dry_run
    THEN [status |-> "ok", stdout |-> PyBytes(<<>>), spawn |-> <<>>,
          log |-> <<Info("Running: " \o cmd)>>]
    ELSE IF o = "oserror"
    THEN [status |-> "Exception", stdout |-> PyNone, spawn |-> <<>>,
          log |-> <<Info("Running: " \o cmd)>>]
    ELSE IF o = "nonzero"
    THEN [status |-> "ok", stdout |-> PyStr(out), spawn |-> <<cmd>>,
          log |-> <<Info("Running: " \o cmd), Error("Command failed: " \o cmd),
                    Error("Error output")>>]
    ELSE [status |-> "ok", stdout |-> PyStr(out), spawn |-> <<cmd>>,
          log |-> <<Info("Running: " \o cmd)>>]

\* run_command(cmd) when the operating system answers o with standard
\* output out: how control leaves ("ok", "SystemExit" from sys.exit(1), or
\* "Exception" out of subprocess.run), the stdout of the result, the commands
\* spawned and the lines logged
run_command(cmd, o, out) ==
    IF dry_run
    THEN [status |-> "ok", stdout |-> PyBytes(<<>>), spawn |-> <<>>,
          log |-> <<Info("Running: " \o cmd)>>]
    ELSE IF o = "oserror"
    THEN [status |-> "Exception", stdout |-> PyNone, spawn |-> <<>>,
          log |-> <<Info("Running: " \o cmd)>>]
    ELSE IF o = "nonzero"
    THEN [status |-> "SystemExit", stdout |-> PyNone, spawn |-> <<cmd>>,
          log |-> <<Info("Running: " \o cmd), Error("Command failed: " \o cmd),
                    Error("Error output")>>]
    ELSE [status |-> "ok", stdout |-> PyStr(out), spawn |-> <<cmd>>,
          log |-> <<Info("Running: " \o cmd)>>]

\* where control goes inside release()'s try block when a step leaves with
\* status s: on, to the except clause, or (SystemExit is no Exception)
\* straight to the finally clause
After(s, next) ==
    IF s = "ok" THEN next ELSE IF s = "Exception" THEN "except" ELSE "finally"

Exc(s) == IF s = "ok" THEN "none" ELSE s

(***************************************************************************)
(* The inputs of a run and the state it starts in                          *)
(***************************************************************************)
ExplicitVersion == PyStr(<<"v", "2", ".", "0", ".", "0">>)

Token == PyStr(<<"t", "o", "k">>)

\* tmp/mathfonts-<version_clean>.<ext>
ArchivePath(v, ext) == <<"tmp/mathfonts-">> \o LStripChars(v.val, {"v"}) \o <<ext>>

ZipPath(v) == ArchivePath(v, ".zip")

TarPath(v) == ArchivePath(v, ".tar.gz")

\* archive files an earlier run of the explicit version may have left behind
StaleFiles == {ZipPath(ExplicitVersion), TarPath(ExplicitVersion)}

\* the latest reachable tag of the repository, when there is one: well-formed
\* tags, tags with too few or too many parts, a part that is no integer,
\* a doubled prefix, and an empty name
RepoTags ==
    { <<"v", "0", ".", "0", ".", "9">>,
      <<"1", ".", "2", ".", "3">>,
      <<"v", "1", ".", "2">>,
      <<"v", "1", ".", "2", ".", "3", ".", "4">>,
      <<"v", "1", ".", "x", ".", "0">>,
      <<"v", "1", ".", "2", ".">>,
      <<"r", "c", "1">> }

\* well-formed tags vX.Y.Z with components up to MaxComp
WellFormedTags == {FormatVersion(x, y, z) : x, y, z \in 0..MaxComp}

Idle == [raised |-> "pending", val |-> PyNone]

ProgramStart ==
    /\ dry_run = FALSE
    /\ github_token = PyNone
    /\ exc = "none"
    /\ current_version = PyNone
    /\ version = PyNone
    /\ archives = <<>>
    /\ archives_bound = FALSE
    /\ todo = <<>>
    /\ ret = "none"
    /\ exit_code = -1
    /\ written = {}
    /\ deleted = {}
    /\ spawned = <<>>
    /\ http = <<>>
    /\ log = <<>>

\* a run of the script: the command line, the environment variable, and the
\* working tree it is started in
Init ==
    /\ pc = "main"
    /\ args_version \in {PyNone, PyStr(<<>>), ExplicitVersion}
    /\ args_dry_run \in BOOLEAN
    /\ args_token \in {PyNone, PyStr(<<>>), Token}
    /\ env_token \in {PyNone, Token}
    /\ makefile_exists \in BOOLEAN
    /\ dist_exists \in BOOLEAN
    /\ tmp_exists \in BOOLEAN
    /\ disk \in {{}, StaleFiles}
    /\ ProgramStart
    /\ call_in = PyNone
    /\ call_type = "patch"
    /\ call_out = Idle

\* either a direct call of increment_version on a well-formed version, or a
\* run of release() without --version in a working tree whose build succeeds
VersionInit ==
    /\ args_version = PyNone
    /\ args_token = Token
    /\ env_token = PyNone
    /\ makefile_exists = TRUE
    /\ dist_exists = TRUE
    /\ tmp_exists = TRUE
    /\ disk = {}
    /\ ProgramStart
    /\ \/ /\ pc = "call"
          /\ args_dry_run = FALSE
          /\ call_in \in {PyStr(t) : t \in WellFormedTags}
          /\ call_type \in IncrementTypes
          /\ call_out = Idle
       \/ /\ pc = "main"
          /\ args_dry_run \in BOOLEAN
          /\ call_in = PyNone
          /\ call_type = "patch"
          /\ call_out = Idle

(***************************************************************************)
(* main() and __init__                                                     *)
(***************************************************************************)
\* github_token or os.getenv('GITHUB_TOKEN')
PyOr(a, b) == IF Truthy(a) THEN a ELSE b

Construct ==
    /\ pc = "main"
    /\ dry_run' = args_dry_run
    /\ github_token' = PyOr(args_token, env_token)
    /\ pc' = "release"
    /\ UNCHANGED <<args_version, args_dry_run, args_token, env_token, exc,
                   current_version, version, archives, archives_bound, todo,
                   ret, exit_code, makefile_exists, dist_exists, tmp_exists,
                   disk, written, deleted, spawned, http, log,
                   call_in, call_type, call_out>>

inputs == <<args_version, args_dry_run, args_token, env_token, dry_run,
            github_token, call_in, call_type, call_out>>

(***************************************************************************)
(* release(): version                                                      *)
(***************************************************************************)
\* what `git describe --tags --abbrev=0` can answer: the latest tag, a
\* nonzero exit when no tag is reachable, or git cannot be started
DescribeAnswers(tags) ==
    {[o |-> "ok", tag |-> t] : t \in tags}
        \cup {[o |-> "nonzero", tag |-> <<>>], [o |-> "oserror", tag |-> <<>>]}

\* get_current_version(): run_command never raises CalledProcessError
\* (subprocess.run is called without check=True), so the except clause that
\* returns 'v0.0.0' is never entered
get_current_version(a) ==
    LET r == run_command(GitDescribe, a.o, a.tag \o <<"\n">>)
    IN  [status |-> r.status,
         val |-> IF r.status = "ok" THEN Strip(r.stdout) ELSE PyNone,
         spawn |-> r.spawn, log |-> r.log]

DetermineVersionFrom(tags) ==
    /\ pc = "release"
    /\ IF Truthy(args_version)
       THEN /\ version' = args_version
            /\ log' = Append(log, Info("Creating release"))
            /\ pc' = "build_fonts"
            /\ UNCHANGED <<current_version, spawned, exc>>
       ELSE \E a \in DescribeAnswers(tags) :
              LET cur == get_current_version(a)
                  inc == increment_version(cur.val, "patch")
              IN  /\ spawned' = spawned \o cur.spawn
                  /\ IF cur.status # "ok"
                     THEN /\ log' = log \o cur.log
                          /\ exc' = cur.status
                          /\ pc' = After(cur.status, "build_fonts")
                          /\ UNCHANGED <<current_version, version>>
                     ELSE IF inc.raised # "none"
                     THEN /\ log' = log \o cur.log
                          /\ current_version' = cur.val
                          /\ exc' = "Exception"
                          /\ pc' = "except"
                          /\ UNCHANGED version
                     ELSE /\ log' = (log \o cur.log) \o <<Info("Creating release")>>
                          /\ current_version' = cur.val
                          /\ version' = inc.val
                          /\ pc' = "build_fonts"
                          /\ UNCHANGED exc
    /\ UNCHANGED <<inputs, archives, archives_bound, todo, ret, exit_code,
                   makefile_exists, dist_exists, tmp_exists, disk, written,
                   deleted, http>>

DetermineVersion == DetermineVersionFrom(RepoTags)

DetermineVersionWellFormed == DetermineVersionFrom(WellFormedTags)

\* increment_version called directly
IncrementVersionCall ==
    /\ pc = "call"
    /\ call_out' = increment_version(call_in, call_type)
    /\ pc' = "called"
    /\ UNCHANGED <<args_version, args_dry_run, args_token, env_token, dry_run,
                   github_token, exc, current_version, version, archives,
                   archives_bound, todo, ret, exit_code, makefile_exists,
                   dist_exists, tmp_exists, disk, written, deleted, spawned,
                   http, log, call_in, call_type>>

(***************************************************************************)
(* build_fonts()                                                           *)
(***************************************************************************)
BuildCheckMakefile ==
    /\ pc = "build_fonts"
    /\ IF ~makefile_exists
       THEN /\ log' = log \o <<Info("Building fonts..."), Error("Makefile not found")>>
            /\ exc' = "SystemExit"
            /\ pc' = "finally"
       ELSE /\ log' = Append(log, Info("Building fonts..."))
            /\ pc' = "make_clean"
            /\ UNCHANGED exc
    /\ UNCHANGED <<inputs, current_version, version, archives, archives_bound,
                   todo, ret, exit_code, makefile_exists, dist_exists,
                   tmp_exists, disk, written, deleted, spawned, http>>

\* one make invocation; a make that ran may have created or removed dist/
Make(cmd, at, next) ==
    /\ pc = at
    /\ \E o \in RunOutcomes, d \in BOOLEAN :
         LET r == run_command(cmd, o, <<>>)
         IN  /\ spawned' = spawned \o r.spawn
             /\ log' = log \o r.log
             /\ exc' = Exc(r.status)
             /\ pc' = After(r.status, next)
             /\ dist_exists' = IF r.spawn # <<>> THEN d ELSE dist_exists
    /\ UNCHANGED <<inputs, current_version, version, archives, archives_bound,
                   todo, ret, exit_code, makefile_exists, tmp_exists, disk,
                   written, deleted, http>>

BuildMakeClean == Make(MakeClean, "make_clean", "make_all")

BuildMakeAll == Make(MakeAll, "make_all", "check_dist")

BuildCheckDist ==
    /\ pc = "check_dist"
    /\ IF ~dist_exists
       THEN /\ log' = Append(log, Error("dist/ directory not created after build"))
            /\ exc' = "SystemExit"
            /\ pc' = "finally"
       ELSE /\ log' = Append(log, Info("Font build completed successfully"))
            /\ pc' = "create_zip"
            /\ UNCHANGED exc
    /\ UNCHANGED <<inputs, current_version, version, archives, archives_bound,
                   todo, ret, exit_code, makefile_exists, dist_exists,
                   tmp_exists, disk, written, deleted, spawned, http>>

(***************************************************************************)
(* create_archives()                                                       *)
(***************************************************************************)
\* how writing one archive can end: written in full, or an exception with
\* the file already created on disk, or an exception before it was created
WriteOutcomes == {"ok", "raise_partial", "raise_nofile"}

\* the zip half of create_archives: tmp/ is created, the zip is written
\* unless dry_run, and archives['zip'] is recorded
CreateZip ==
    /\ pc = "create_zip"
    /\ tmp_exists' = TRUE
    /\ \E w \in WriteOutcomes :
         LET path == ZipPath(version)
         IN  IF dry_run \/ w = "ok"
             THEN /\ archives' = <<<<"zip", path>>>>
                  /\ log' = log \o <<Info("Creating archives"), Info("Created ZIP archive")>>
                  /\ disk' = IF dry_run THEN disk ELSE disk \cup {path}
                  /\ written' = IF dry_run THEN written ELSE written \cup {path}
                  /\ pc' = "create_tar"
                  /\ UNCHANGED exc
             ELSE /\ log' = Append(log, Info("Creating archives"))
                  /\ disk' = IF w = "raise_partial" THEN disk \cup {path} ELSE disk
                  /\ written' = IF w = "raise_partial" THEN written \cup {path} ELSE written
                  /\ exc' = "Exception"
                  /\ pc' = "except"
                  /\ UNCHANGED archives
    /\ UNCHANGED <<inputs, current_version, version, archives_bound, todo, ret,
                   exit_code, makefile_exists, dist_exists, deleted, spawned, http>>

\* the tar.gz half of create_archives, its return, and the assignment of the
\* result to release()'s local `archives`
CreateTar ==
    /\ pc = "create_tar"
    /\ \E w \in WriteOutcomes :
         LET path == TarPath(version)
         IN  IF dry_run \/ w = "ok"
             THEN /\ archives' = Append(archives, <<"tar.gz", path>>)
                  /\ archives_bound' = TRUE
                  /\ log' = Append(log, Info("Created TAR.GZ archive"))
                  /\ disk' = IF dry_run THEN disk ELSE disk \cup {path}
                  /\ written' = IF dry_run THEN written ELSE written \cup {path}
                  /\ pc' = "check_token"
                  /\ UNCHANGED exc
             ELSE /\ disk' = IF w = "raise_partial" THEN disk \cup {path} ELSE disk
                  /\ written' = IF w = "raise_partial" THEN written \cup {path} ELSE written
                  /\ exc' = "Exception"
                  /\ pc' = "except"
                  /\ UNCHANGED <<archives, archives_bound, log>>
    /\ UNCHANGED <<inputs, current_version, version, todo, ret, exit_code,
                   makefile_exists, dist_exists, tmp_exists, deleted, spawned, http>>

(***************************************************************************)
(* create_github_release() and upload_release_asset()                      *)
(***************************************************************************)
\* a variant of TokenMissing that lets a run without a token go on
TokenMissingNever(tok) == FALSE

\* `if not self.github_token`
TokenMissing(tok) == ~Truthy(tok)

\* a variant of CreateFailed that takes every answer for a success
CreateFailedNever(status) == FALSE

\* `if response.status_code != 201` on the create call
CreateFailed(status) == status # 201

\* `if response.status_code != 201` on an upload
UploadFailed(status) == status # 201

\* what requests.post can do: answer with a status code, or raise
HttpAnswers ==
    {[raised |-> FALSE, status |-> 201], [raised |-> FALSE, status |-> 422],
     [raised |-> TRUE, status |-> 0]}

Request(kind, asset, a) ==
    [kind |-> kind, asset |-> asset,
     status |-> IF a.raised THEN "raised" ELSE IF a.status = 201 THEN "201" ELSE "failed"]

\* release()'s else branch after create_github_release returned False
ReleaseFailedLog == <<Error("Release creation failed")>>

CheckToken ==
    /\ pc = "check_token"
    /\ IF TokenMissing(github_token)
       THEN /\ log' = (log \o <<Error("GitHub token required for release creation")>>)
                          \o ReleaseFailedLog
            /\ ret' = "False"
            /\ pc' = "finally"
       ELSE /\ pc' = "release_notes"
            /\ UNCHANGED <<log, ret>>
    /\ UNCHANGED <<inputs, exc, current_version, version, archives,
                   archives_bound, todo, exit_code, makefile_exists,
                   dist_exists, tmp_exists, disk, written, deleted, spawned, http>>

\* previous_version, the release notes (read from dist/, nothing written),
\* and the dry-run return
ReleaseNotes ==
    /\ pc = "release_notes"
    /\ \E a \in DescribeAnswers(RepoTags) :
         LET prev == get_current_version(a)
         IN  /\ spawned' = spawned \o prev.spawn
             /\ exc' = Exc(prev.status)
             /\ IF prev.status # "ok"
                THEN /\ log' = log \o prev.log
                     /\ pc' = After(prev.status, "post_release")
                ELSE IF dry_run
                THEN /\ log' = (log \o prev.log)
                                 \o <<Info("Creating GitHub release"),
                                      Info("Would create release with data:"),
                                      Info("release_data")>>
                     /\ pc' = "git_tag"
                ELSE /\ log' = (log \o prev.log) \o <<Info("Creating GitHub release")>>
                     /\ pc' = "post_release"
    /\ UNCHANGED <<inputs, current_version, version, archives, archives_bound,
                   todo, ret, exit_code, makefile_exists, dist_exists,
                   tmp_exists, disk, written, deleted, http>>

PostRelease ==
    /\ pc = "post_release"
    /\ \E a \in HttpAnswers :
         /\ http' = Append(http, Request("create", "", a))
         /\ IF a.raised
            THEN /\ exc' = "Exception"
                 /\ pc' = "except"
                 /\ UNCHANGED <<log, ret, todo>>
            ELSE IF CreateFailed(a.status)
            THEN /\ log' = (log \o <<Error("Failed to create release"),
                                     Error("response.text")>>) \o ReleaseFailedLog
                 /\ ret' = "False"
                 /\ pc' = "finally"
                 /\ UNCHANGED <<exc, todo>>
            ELSE /\ todo' = archives
                 /\ pc' = "upload"
                 /\ UNCHANGED <<exc, log, ret>>
    /\ UNCHANGED <<inputs, current_version, version, archives, archives_bound,
                   exit_code, makefile_exists, dist_exists, tmp_exists, disk,
                   written, deleted, spawned>>

\* one iteration of the loop over archives.items(): upload_release_asset.
\* open() raises when the file is not there or cannot be read.
Upload ==
    /\ pc = "upload"
    /\ todo # <<>>
    /\ LET key == Head(todo)[1]
           path == Head(todo)[2]
       IN  \E readable \in BOOLEAN, a \in HttpAnswers :
             IF ~(readable /\ path \in disk)
             THEN /\ log' = Append(log, Info("Uploading " \o key))
                  /\ exc' = "Exception"
                  /\ pc' = "except"
                  /\ UNCHANGED <<http, todo>>
             ELSE /\ http' = Append(http, Request("upload", key, a))
                  /\ IF a.raised
                     THEN /\ log' = Append(log, Info("Uploading " \o key))
                          /\ exc' = "Exception"
                          /\ pc' = "except"
                          /\ UNCHANGED todo
                     ELSE /\ log' = log \o
                               (IF UploadFailed(a.status)
                                THEN <<Info("Uploading " \o key),
                                       Error("Failed to upload " \o key),
                                       Error("response.text")>>
                                ELSE <<Info("Uploading " \o key),
                                       Info("Successfully uploaded " \o key)>>)
                          /\ todo' = Tail(todo)
                          /\ UNCHANGED <<exc, pc>>
    /\ UNCHANGED <<inputs, current_version, version, archives, archives_bound,
                   ret, exit_code, makefile_exists, dist_exists, tmp_exists,
                   disk, written, deleted, spawned>>

\* the loop is over: create_github_release returns True
UploadsDone ==
    /\ pc = "upload"
    /\ todo = <<>>
    /\ log' = Append(log, Info("Successfully created release"))
    /\ pc' = "git_tag"
    /\ UNCHANGED <<inputs, exc, current_version, version, archives,
                   archives_bound, todo, ret, exit_code, makefile_exists,
                   dist_exists, tmp_exists, disk, written, deleted, spawned, http>>

(***************************************************************************)
(* create_git_tag()                                                        *)
(***************************************************************************)
CreateGitTag ==
    /\ pc = "git_tag"
    /\ \E o \in RunOutcomes :
         LET r == run_command(GitTag, o, <<>>)
         IN  /\ spawned' = spawned \o r.spawn
             /\ log' = (log \o <<Info("Creating git tag")>>) \o r.log
             /\ exc' = Exc(r.status)
             /\ pc' = After(r.status, "git_push")
    /\ UNCHANGED <<inputs, current_version, version, archives, archives_bound,
                   todo, ret, exit_code, makefile_exists, dist_exists,
                   tmp_exists, disk, written, deleted, http>>

\* the push, and release()'s log line after create_git_tag returned
PushGitTag ==
    /\ pc = "git_push"
    /\ \E o \in RunOutcomes :
         LET r == run_command(GitPush, o, <<>>)
         IN  /\ spawned' = spawned \o r.spawn
             /\ log' = (log \o r.log) \o
                   (IF r.status = "ok" THEN <<Info("Release completed successfully!")>>
                    ELSE <<>>)
             /\ exc' = Exc(r.status)
             /\ pc' = After(r.status, "finally")
    /\ UNCHANGED <<inputs, current_version, version, archives, archives_bound,
                   todo, ret, exit_code, makefile_exists, dist_exists,
                   tmp_exists, disk, written, deleted, http>>

(***************************************************************************)
(* release(): except, finally, return; main(): exit                        *)
(***************************************************************************)
Except ==
    /\ pc = "except"
    /\ log' = Append(log, Error("Release failed"))
    /\ ret' = "False"
    /\ exc' = "none"
    /\ pc' = "finally"
    /\ UNCHANGED <<inputs, current_version, version, archives, archives_bound,
                   todo, exit_code, makefile_exists, dist_exists, tmp_exists,
                   disk, written, deleted, spawned, http>>

\* the paths cleanup_archives unlinks: those of archives.values() that exist,
\* and none in dry-run mode
Unlinked(archs, dsk) ==
    IF dry_run THEN {} ELSE {archs[i][2] : i \in 1..Len(archs)} \cap dsk

\* the finally clause, then what follows it: SystemExit goes on to end the
\* process with code 1, a pending `return False` completes, and otherwise
\* release() falls through to `return True`
Finally ==
    /\ pc = "finally"
    /\ LET gone == IF archives_bound THEN Unlinked(archives, disk) ELSE {}
       IN  /\ disk' = disk \ gone
           /\ deleted' = deleted \cup gone
           /\ log' = log \o [i \in 1..Cardinality(gone) |-> Info("Cleaned up")]
    /\ IF exc = "SystemExit"
       THEN /\ exit_code' = 1
            /\ pc' = "done"
            /\ UNCHANGED ret
       ELSE /\ ret' = IF ret = "False" THEN "False" ELSE "True"
            /\ pc' = "main_exit"
            /\ UNCHANGED exit_code
    /\ UNCHANGED <<inputs, exc, current_version, version, archives,
                   archives_bound, todo, makefile_exists, dist_exists,
                   tmp_exists, written, spawned, http>>

\* sys.exit(0 if success else 1)
MainExit ==
    /\ pc = "main_exit"
    /\ exit_code' = IF ret = "True" THEN 0 ELSE 1
    /\ pc' = "done"
    /\ UNCHANGED <<inputs, exc, current_version, version, archives,
                   archives_bound, todo, ret, makefile_exists, dist_exists,
                   tmp_exists, disk, written, deleted, spawned, http, log>>

(***************************************************************************)
(* Specifications                                                          *)
(***************************************************************************)
Next ==
    \/ Construct
    \/ DetermineVersion
    \/ BuildCheckMakefile
    \/ BuildMakeClean
    \/ BuildMakeAll
    \/ BuildCheckDist
    \/ CreateZip
    \/ CreateTar
    \/ CheckToken
    \/ ReleaseNotes
    \/ PostRelease
    \/ Upload
    \/ UploadsDone
    \/ CreateGitTag
    \/ PushGitTag
    \/ Except
    \/ Finally
    \/ MainExit

Spec == Init /\ [][Next]_vars

VersionNext ==
    \/ IncrementVersionCall
    \/ Construct
    \/ DetermineVersionWellFormed

VersionSpec == VersionInit /\ [][VersionNext]_vars

(***************************************************************************)
(* Observations used by the properties                                     *)
(***************************************************************************)
Logged(e) == \E i \in 1..Len(log) : log[i] = e

Ran(cmd) == \E i \in 1..Len(spawned) : spawned[i] = cmd

Times(cmd) == Cardinality({i \in 1..Len(spawned) : spawned[i] = cmd})

Sent(kind) == \E i \in 1..Len(http) : http[i].kind = kind

CreateAnswered201 ==
    \E i \in 1..Len(http) : http[i].kind = "create" /\ http[i].status = "201"

CreateNotSucceeded ==
    \E i \in 1..Len(http) : http[i].kind = "create" /\ http[i].status # "201"

RECURSIVE IsSubseq(_, _)
\* a occurs in b in this order, not necessarily contiguously
IsSubseq(a, b) ==
    IF a = <<>> THEN TRUE
    ELSE IF b = <<>> THEN FALSE
    ELSE IF Head(a) = Head(b) THEN IsSubseq(Tail(a), Tail(b))
    ELSE IsSubseq(a, Tail(b))

NoCredential == ~Truthy(args_token) /\ ~Truthy(env_token)

AutoVersion == ~Truthy(args_version)

Triples == (0..MaxComp) \X (0..MaxComp) \X (0..MaxComp)

TagOf == [t \in Triples |-> FormatVersion(t[1], t[2], t[3])]

\* vX.Y.Z incremented as the specification words it
Bumped(t, increment_type) ==
    IF increment_type = "major" THEN FormatVersion(t[1] + 1, 0, 0)
    ELSE IF increment_type = "minor" THEN FormatVersion(t[1], t[2] + 1, 0)
    ELSE FormatVersion(t[1], t[2], t[3] + 1)

\* a tag that is not exactly three dot-separated integers
Malformed(tag) ==
    LET parts == Split(LStripChars(tag, {"v"}), ".")
    IN  Len(parts) # 3 \/ \E i \in 1..Len(parts) : ~ParseInt(parts[i]).ok

(***************************************************************************)
(* Properties                                                              *)
(***************************************************************************)
\* C1: an asset upload is sent, and a git tag is created or pushed, only
\* after the create-release request was answered 201 and, for the tag, after
\* create_github_release logged its success and returned True; a run whose
\* create request did not succeed sends no upload and spawns no git tag/push.
C1_NoUploadNoTagWithoutRelease ==
    /\ \A i \in 1..Len(http) :
         http[i].kind = "upload" =>
           \E j \in 1..(i - 1) : http[j].kind = "create" /\ http[j].status = "201"
    /\ (Ran(GitTag) \/ Ran(GitPush)) =>
         (CreateAnswered201 /\ Logged(Info("Successfully created release")))
    /\ CreateNotSucceeded =>
         (~Sent("upload") /\ ~Ran(GitTag) /\ ~Ran(GitPush) /\ todo = <<>>)

C1_Witness ==
    /\ pc = "done"
    /\ CreateNotSucceeded
    /\ Logged(Error("Failed to create release"))
    /\ archives_bound

\* C2: at the end of a non-dry run, no archive file this run wrote is left
\* on disk.
C2_NoArchiveLeftBehind ==
    (pc = "done" /\ ~dry_run) => (written \cap disk = {})

C4_DryRunCompletes ==
    (pc = "done" /\ args_dry_run /\ makefile_exists /\ dist_exists /\ ~NoCredential) =>
        /\ ret = "True"
        /\ exit_code = 0
        /\ IsSubseq(<<Info("Creating release"), Info("Building fonts..."),
                      Info("Creating archives"), Info("Creating GitHub release"),
                      Info("Creating git tag"), Info("Release completed successfully!")>>,
                    log)

\* C5: once the release was created, an upload is attempted for every archive
\* of the archive set by the end of the run, however another upload failed.
C5_EveryAssetAttempted ==
    (pc = "done" /\ CreateAnswered201) =>
        \A i \in 1..Len(archives) : Logged(Info("Uploading " \o archives[i][1]))

\* C6: the exit code is 1 when any step logged a failure and 0 otherwise.
C6_ExitCodeTellsFailure ==
    pc = "done" =>
        exit_code = (IF \E i \in 1..Len(log) : log[i][1] = "ERROR" THEN 1 ELSE 0)

BuildFailed ==
    \/ Logged(Error("Makefile not found"))
    \/ Logged(Error("Command failed: " \o MakeClean))
    \/ Logged(Error("Command failed: " \o MakeAll))
    \/ Logged(Error("dist/ directory not created after build"))

\* C7: in a non-dry run, a missing Makefile, a nonzero exit of make clean or
\* of the build, or a missing dist/ after the build ends the run at once: no
\* make command is run twice, none is run after the failure, no archive is
\* created, no HTTP request is sent, no tag is created, and the exit code is 1.
C7_BuildFailureAborts ==
    (~args_dry_run /\ BuildFailed) =>
        /\ pc \in {"finally", "done"}
        /\ pc = "done" => exit_code = 1
        /\ Times(MakeClean) <= 1
        /\ Times(MakeAll) <= 1
        /\ Logged(Error("Makefile not found")) => (~Ran(MakeClean) /\ ~Ran(MakeAll))
        /\ Logged(Error("Command failed: " \o MakeClean)) => ~Ran(MakeAll)
        /\ archives = <<>>
        /\ ~archives_bound
        /\ written = {}
        /\ http = <<>>
        /\ ~Ran(GitTag)
        /\ ~Ran(GitPush)

C7_Witness ==
    /\ pc = "done"
    /\ ~args_dry_run
    /\ Logged(Error("Command failed: " \o MakeClean))
    /\ exit_code = 1

\* C8: without a credential (no --token, no GITHUB_TOKEN) no HTTP request is
\* sent and no tag is created or pushed, create_github_release makes
\* release() return False, and the process ends with exit code 1, in dry-run
\* and non-dry-run mode alike.
C8_NoCredentialNoNetwork ==
    NoCredential =>
        /\ http = <<>>
        /\ ~Ran(GitTag)
        /\ ~Ran(GitPush)
        /\ ~Logged(Info("Creating git tag"))
        /\ pc \notin {"release_notes", "post_release", "upload", "git_tag", "git_push"}
        /\ ret # "True"
        /\ archives_bound /\ pc \in {"finally", "main_exit", "done"} => ret = "False"
        /\ pc = "done" => exit_code = 1

C8_Witness ==
    /\ NoCredential
    /\ pc = "done"
    /\ Logged(Error("GitHub token required for release creation"))
    /\ ret = "False"
    /\ exit_code = 1

\* C9: in a non-dry run without --version, when git describe answers a
\* malformed tag or finds no tag, the release version is v1.0.0 and the run
\* goes on to the build.
C9_MalformedOrAbsentGivesDefault ==
    (/\ AutoVersion
     /\ ~args_dry_run
     /\ pc \notin {"main", "release"}
     /\ \/ current_version.type = "str" /\ Malformed(current_version.val)
        \/ spawned = <<GitDescribe>> /\ Logged(Error("Command failed: " \o GitDescribe)))
    => (version = DefaultVersion /\ Logged(Info("Creating release")))

\* C10: increment_version on a well-formed vX.Y.Z returns vX.Y.(Z+1) for
\* patch, vX.(Y+1).0 for minor and v(X+1).0.0 for major, and a version that
\* release() resolves by itself is the patch increment of the latest tag.
C10_IncrementWellFormed ==
    /\ pc = "called" =>
         \A t \in Triples :
           call_in = PyStr(TagOf[t]) =>
             call_out = Returned(PyStr(Bumped(t, call_type)))
    /\ (pc = "build_fonts" /\ AutoVersion) =>
         /\ current_version.type = "str"
         /\ \E t \in Triples : current_version.val = TagOf[t]
         /\ \A t \in Triples :
              current_version.val = TagOf[t] => version = PyStr(Bumped(t, "patch"))

C10_Witness ==
    /\ pc = "called"
    /\ call_type = "minor"
    /\ call_in = PyStr(FormatVersion(9, 9, 9))
    /\ call_out = Returned(PyStr(FormatVersion(9, 10, 0)))

====
